---- MODULE Spec2Model ----
(***************************************************************************)
(* DocuQuery (src/main.py): the upload / extract / chunk endpoints of the  *)
(* FastAPI application and the sliding-window chunker chunk_text.          *)
(*                                                                         *)
(* Strings are sequences of one-character strings, so that slicing,        *)
(* suffix tests and replacement are computed character by character.       *)
(***************************************************************************)
EXTENDS Integers, Sequences, FiniteSets, TLC

VARIABLES
    store,       \* the uploads/ directory: directory entry -> stored document
    uploads,     \* history of the POST /upload requests received so far
    response,    \* the response of the last finished request
    pc,          \* "idle" | "loop" (inside chunk_text's while) | "done" (chunk_text returned)
    text,        \* chunk_text: argument text
    chunk_size,  \* chunk_text: argument chunk_size
    overlap,     \* chunk_text: argument overlap
    start,       \* chunk_text: local start
    chunk_id,    \* chunk_text: local chunk_id
    chunks       \* chunk_text: local chunks

vars == <<store, uploads, response, pc, text, chunk_size, overlap, start, chunk_id, chunks>>

chunkVars == <<text, chunk_size, overlap, start, chunk_id, chunks>>

-----------------------------------------------------------------------------
(* Bounds of the model *)

\* longest text over Alphabet that chunk_text is applied to
MaxLen == 4

\* smallest and largest value of the integer parameters chunk_size and overlap
MaxNeg == 2
MaxParam == 5

\* iterations of the while loop after which a run is cut off; it is larger
\* than every text of the model, so a run whose start grows in each iteration
\* ends on its own before the cut
MaxIter == 20

\* number of POST /upload requests in a run
MaxUploads == 2

Alphabet == {"a", "b"}

\* the text of the worked example of the chunker
ExampleText == <<"a", "b", "c", "d", "e", "f", "g", "h", "i", "j">>

Texts == UNION {[1..n -> Alphabet] : n \in 0..MaxLen} \cup {ExampleText}

Params == (0 - MaxNeg)..MaxParam

-----------------------------------------------------------------------------
(* Python primitives used by the source *)

Min(a, b) == IF a < b THEN a ELSE b
Max(a, b) == IF a > b THEN a ELSE b

\* a slice bound i of a sequence of length n, as Python normalises it
SliceIndex(i, n) == IF i < 0 THEN Max(i + n, 0) ELSE Min(i, n)

PySliceShort(s, i, j) ==
    LET lo == SliceIndex(i, Len(s))
        hi == SliceIndex(j, Len(s)) - 1
    IN  IF lo < hi THEN SubSeq(s, lo + 1, hi) ELSE <<>>

\* s[i:j]
PySlice(s, i, j) ==
    LET lo == SliceIndex(i, Len(s))
        hi == SliceIndex(j, Len(s))
    IN  IF lo < hi THEN SubSeq(s, lo + 1, hi) ELSE <<>>

-----------------------------------------------------------------------------
(* chunk_text, one loop iteration per step *)

\* while start < len(text)
LoopGuardInclusive(s, n) == s <= n

LoopGuard(s, n) == s < n

\* end = start + chunk_size
WindowEnd(s, size) == s + size

\* "end_char": end if end < len(text) else len(text)
EndCharUnclamped(end, n) == end

EndChar(end, n) == IF end < n THEN end ELSE n

\* start = end - overlap
AdvanceNoOverlap(end, ov) == end

AdvanceShort(end, ov) == end - ov - 1

AdvanceLong(end, ov) == end - ov + 1

Advance(end, ov) == end - ov

\* the dictionary built in the loop body
ChunkIdFromOne(id, t, s, size) ==
    LET end == WindowEnd(s, size)
        chunk_text == PySlice(t, s, end)
    IN  [chunk_id   |-> id + 1,
         text       |-> chunk_text,
         start_char |-> s,
         end_char   |-> EndChar(end, Len(t)),
         num_chars  |-> Len(chunk_text)]

Chunk(id, t, s, size) ==
    LET end == WindowEnd(s, size)
        chunk_text == PySlice(t, s, end)
    IN  [chunk_id   |-> id,
         text       |-> chunk_text,
         start_char |-> s,
         end_char   |-> EndChar(end, Len(t)),
         num_chars  |-> Len(chunk_text)]

\* chunks = []; start = 0; chunk_id = 0
ChunkTextEntry(t, size, ov) ==
    /\ text' = t
    /\ chunk_size' = size
    /\ overlap' = ov
    /\ start' = 0
    /\ chunk_id' = 0
    /\ chunks' = <<>>
    /\ pc' = "loop"

\* one iteration of the while loop
ChunkLoopStep ==
    /\ pc = "loop"
    /\ LoopGuard(start, Len(text))
    /\ chunk_id < MaxIter
    /\ chunks' = Append(chunks, Chunk(chunk_id, text, start, chunk_size))
    /\ start' = Advance(WindowEnd(start, chunk_size), overlap)
    /\ chunk_id' = chunk_id + 1
    /\ UNCHANGED <<store, uploads, response, pc, text, chunk_size, overlap>>

\* the loop condition is false: return chunks
ChunkLoopExit ==
    /\ pc = "loop"
    /\ ~LoopGuard(start, Len(text))
    /\ pc' = "done"
    /\ UNCHANGED <<store, uploads, response, chunkVars>>

-----------------------------------------------------------------------------
(* Strings of the endpoints *)

PdfSuffix == <<".", "p", "d", "f">>

\* s.endswith(suffix)
EndsWith(s, suffix) ==
    /\ Len(s) >= Len(suffix)
    /\ SubSeq(s, Len(s) - Len(suffix) + 1, Len(s)) = suffix

\* s.replace(old, new) for one-character old and new
Replace(s, old, new) == [i \in 1..Len(s) |-> IF s[i] = old THEN new ELSE s[i]]

\* file.filename.replace(" ", "_")
SafeFilename(filename) == Replace(filename, " ", "_")

Digit(d) == CASE d = 0 -> "0" [] d = 1 -> "1" [] d = 2 -> "2" [] d = 3 -> "3"
              [] d = 4 -> "4" [] d = 5 -> "5" [] d = 6 -> "6" [] d = 7 -> "7"
              [] d = 8 -> "8" [] d = 9 -> "9"

\* str(n) for n >= 0
RECURSIVE IntToStr(_)
IntToStr(n) == IF n < 10 THEN <<Digit(n)>>
               ELSE IntToStr(n \div 10) \o <<Digit(n % 10)>>

\* f"\n----Page {page_num+1}----\n" for the 0-based page_num
PageHeader(page_num) ==
    <<"\n", "-", "-", "-", "-", "P", "a", "g", "e", " ">>
        \o IntToStr(page_num + 1) \o <<"-", "-", "-", "-", "\n">>

Whitespace == {" ", "\n", "\t"}

\* len(s.split()): the maximal runs of non-whitespace characters
NumWords(s) ==
    Cardinality({i \in 1..Len(s) :
        s[i] \notin Whitespace /\ (i = 1 \/ s[i - 1] \in Whitespace)})

\* the file names of the requests
Filenames ==
    { <<"a", ".", "p", "d", "f">>,
      <<"a", " ", "b", ".", "p", "d", "f">>,
      <<"a", "_", "b", ".", "p", "d", "f">>,
      <<"a", ".", "t", "x", "t">>,
      <<"d", "/", "a", ".", "p", "d", "f">> }

\* the uploaded bodies: size in bytes, whether PyPDF2 reads it, its page texts
Documents ==
    { [size |-> 0, readable |-> FALSE, pages |-> <<>>],
      [size |-> 1, readable |-> FALSE, pages |-> <<>>],
      [size |-> 2, readable |-> TRUE,  pages |-> <<>>],
      [size |-> 3, readable |-> TRUE,  pages |-> << <<"a", "b">> >>] }

\* the chunk_size and overlap query parameters of GET /chunk/{filename}
RequestParams == {0 - 1, 0, 8, 9}

\* text_preview = full_text[:500]
PreviewLen == 500

-----------------------------------------------------------------------------
(* extract_text_from_pdf *)

\* full_text after the pages 0 .. n-1 of the loop
RECURSIVE FullText(_, _)
FullText(pages, n) ==
    IF n = 0 THEN <<>>
    ELSE FullText(pages, n - 1) \o PageHeader(n - 1) \o pages[n]

\* the returned dictionary, or the HTTPException(500) of the except branch
ExtractTextFromPdf(doc) ==
    IF ~doc.readable
    THEN [ok |-> FALSE, status |-> 500, detail |-> "Error extracting text from PDF"]
    ELSE LET full_text == FullText(doc.pages, Len(doc.pages))
         IN  [ok |-> TRUE,
              full_text |-> full_text,
              num_pages |-> Len(doc.pages),
              num_words |-> NumWords(full_text),
              num_chars |-> Len(full_text)]

-----------------------------------------------------------------------------
(* The upload directory *)

\* file_path.exists() for UPLOAD_DIR / filename
Exists(dir, filename) == filename \in DOMAIN dir

\* UPLOAD_DIR / safe_filename names an entry of the upload directory itself
\* only when it has no path separator; the handler creates no subdirectory,
\* so opening a path below one raises FileNotFoundError
CanOpenForWrite(dir, filename) == \A i \in 1..Len(filename) : filename[i] # "/"

\* file_path.open("wb") followed by shutil.copyfileobj
WriteFile(dir, filename, doc) ==
    [n \in DOMAIN dir \cup {filename} |-> IF n = filename THEN doc ELSE dir[n]]

-----------------------------------------------------------------------------
(* The endpoints *)

\* the handler's result for file: the new directory and the response
UploadResult(dir, file) ==
    IF ~EndsWith(file.filename, PdfSuffix)
    THEN [dir |-> dir,
          response |-> [status |-> 400, detail |-> "Only PDF files are allowed"]]
    ELSE IF file.data.size = 0
    THEN [dir |-> dir,
          response |-> [status |-> 400, detail |-> "Empty file uploaded"]]
    ELSE LET safe_filename == SafeFilename(file.filename) IN
         IF ~CanOpenForWrite(dir, safe_filename)
         THEN [dir |-> dir,
               response |-> [status |-> 500, detail |-> "Error uploading file"]]
         ELSE LET written == WriteFile(dir, safe_filename, file.data)
                  extraction_result == ExtractTextFromPdf(written[safe_filename])
              IN  IF ~extraction_result.ok
                  THEN [dir |-> written,
                        response |-> [status |-> 500, detail |-> "Error uploading file"]]
                  ELSE LET full_text == extraction_result.full_text
                           text_preview ==
                               PySlice(full_text, 0, PreviewLen) \o
                                   (IF Len(full_text) > PreviewLen
                                    THEN <<".", ".", ".">> ELSE <<>>)
                       IN  [dir |-> written,
                            response |->
                                [status |-> 200,
                                 filename |-> safe_filename,
                                 size |-> written[safe_filename].size,
                                 num_pages |-> extraction_result.num_pages,
                                 num_words |-> extraction_result.num_words,
                                 num_chars |-> extraction_result.num_chars,
                                 text_preview |-> text_preview]]

\* POST /upload
upload_pdf ==
    /\ pc = "idle"
    /\ Len(uploads) < MaxUploads
    /\ \E filename \in Filenames, data \in Documents :
          LET file == [filename |-> filename, data |-> data]
              result == UploadResult(store, file)
          IN  /\ uploads' = Append(uploads, file)
              /\ store' = result.dir
              /\ response' = result.response
    /\ UNCHANGED <<pc, chunkVars>>

\* GET /extract/{filename}
extract_text ==
    /\ pc = "idle"
    /\ \E filename \in Filenames :
          response' =
              IF ~Exists(store, filename)
              THEN [status |-> 404, detail |-> "not found"]
              ELSE IF ~EndsWith(filename, PdfSuffix)
              THEN [status |-> 400, detail |-> "File must be a PDF."]
              ELSE LET extraction_result == ExtractTextFromPdf(store[filename])
                   IN  IF ~extraction_result.ok
                       THEN [status |-> 500, detail |-> extraction_result.detail]
                       ELSE [status |-> 200,
                             filename |-> filename,
                             extraction |-> extraction_result]
    /\ UNCHANGED <<store, uploads, pc, chunkVars>>

\* GET /chunk/{filename}, up to the call of chunk_text
chunk_pdf ==
    /\ pc = "idle"
    /\ \E filename \in Filenames, size \in RequestParams, ov \in RequestParams :
          IF ~Exists(store, filename)
          THEN /\ response' = [status |-> 404, detail |-> "not found"]
               /\ UNCHANGED <<pc, chunkVars>>
          ELSE IF ~EndsWith(filename, PdfSuffix)
          THEN /\ response' = [status |-> 400, detail |-> "File must be a PDF."]
               /\ UNCHANGED <<pc, chunkVars>>
          ELSE LET extraction_result == ExtractTextFromPdf(store[filename])
               IN  IF ~extraction_result.ok
                   THEN /\ response' = [status |-> 500, detail |-> extraction_result.detail]
                        /\ UNCHANGED <<pc, chunkVars>>
                   ELSE /\ ChunkTextEntry(extraction_result.full_text, size, ov)
                        /\ response' = [status |-> 0]
    /\ UNCHANGED <<store, uploads>>

\* GET /chunk/{filename}, after chunk_text returned: the response
chunk_pdf_return ==
    /\ pc = "done"
    /\ response' = [status |-> 200,
                    total_chunks |-> Len(chunks),
                    chunk_size |-> chunk_size,
                    overlap |-> overlap,
                    original_length |-> Len(text),
                    chunks |-> chunks]
    /\ pc' = "idle"
    /\ UNCHANGED <<store, uploads, chunkVars>>

Init ==
    /\ store = <<>>
    /\ uploads = <<>>
    /\ response = [status |-> 0]
    /\ pc = "idle"
    /\ text = <<>>
    /\ chunk_size = 0
    /\ overlap = 0
    /\ start = 0
    /\ chunk_id = 0
    /\ chunks = <<>>

Next ==
    \/ upload_pdf
    \/ extract_text
    \/ chunk_pdf
    \/ ChunkLoopStep
    \/ ChunkLoopExit
    \/ chunk_pdf_return

Spec == Init /\ [][Next]_vars

-----------------------------------------------------------------------------
(* chunk_text applied to every text and every pair of parameters *)

ChunkInit ==
    /\ store = <<>>
    /\ uploads = <<>>
    /\ response = [status |-> 0]
    /\ pc = "loop"
    /\ text \in Texts
    /\ chunk_size \in Params
    /\ overlap \in Params
    /\ start = 0
    /\ chunk_id = 0
    /\ chunks = <<>>

ChunkNext == ChunkLoopStep \/ ChunkLoopExit

ChunkSpec == ChunkInit /\ [][ChunkNext]_vars

\* the interpreter runs the loop to its end: an enabled step is taken
FairChunkSpec == ChunkSpec /\ WF_vars(ChunkNext)

-----------------------------------------------------------------------------
(* Properties of chunk_text *)

\* the contract's precondition: chunk_size > 0 and 0 <= overlap < chunk_size
ValidParams == chunk_size > 0 /\ 0 <= overlap /\ overlap < chunk_size

\* the offsets [start_char, end_char) of a chunk
RangeOf(c) == c.start_char .. (c.end_char - 1)

CeilDiv(a, b) == (a + b - 1) \div b

\* C1: for a non-empty text and chunk_size > 0, 0 <= overlap < chunk_size, the
\* returned chunks cover the text: the first starts at 0, the last ends at
\* len(text), each chunk starts no later than the previous one ends, the union
\* of the ranges is exactly [0, len(text)), and no chunk is longer than
\* chunk_size.
C1_Coverage ==
    (pc = "done" /\ ValidParams /\ Len(text) > 0) =>
        /\ Len(chunks) > 0
        /\ chunks[1].start_char = 0
        /\ chunks[Len(chunks)].end_char = Len(text)
        /\ \A i \in 1..(Len(chunks) - 1) :
              chunks[i + 1].start_char <= chunks[i].end_char
        /\ UNION {RangeOf(chunks[i]) : i \in 1..Len(chunks)} = 0..(Len(text) - 1)
        /\ \A i \in 1..Len(chunks) :
              /\ chunks[i].num_chars <= chunk_size
              /\ Len(chunks[i].text) <= chunk_size
              /\ chunks[i].end_char - chunks[i].start_char <= chunk_size

\* a returned run over a non-empty text with several overlapping chunks whose
\* last chunk is cut at the end of the text
C1_Witness ==
    /\ pc = "done" /\ ValidParams /\ overlap > 0
    /\ Len(chunks) >= 3
    /\ chunks[Len(chunks)].num_chars < chunk_size

\* C2: at every iteration start = chunk_id * (chunk_size - overlap); the k-th
\* chunk (from 0) has chunk_id k, and the start_char of any two consecutive
\* chunks differ by exactly chunk_size - overlap, the last pair included.
C2_StartAndIds ==
    /\ start = chunk_id * (chunk_size - overlap)
    /\ Len(chunks) = chunk_id
    /\ \A k \in 1..Len(chunks) : chunks[k].chunk_id = k - 1
    /\ \A k \in 1..(Len(chunks) - 1) :
          chunks[k + 1].start_char - chunks[k].start_char = chunk_size - overlap

\* a returned run of at least three chunks with a positive overlap
C2_Witness ==
    /\ pc = "done" /\ Len(chunks) >= 3 /\ overlap > 0
    /\ chunks[3].chunk_id = 2

\* C3: for chunk_size > 0 and 0 <= overlap < chunk_size every emitted chunk has
\* end_char = min(start_char + chunk_size, len(text)), its text is the source
\* from start_char up to end_char, and num_chars = len(text field) =
\* end_char - start_char, also for the final, clamped chunk.
C3_ChunkFields ==
    ValidParams =>
        \A i \in 1..Len(chunks) :
            LET c == chunks[i] IN
            /\ c.end_char = Min(c.start_char + chunk_size, Len(text))
            /\ c.text = [k \in 1..(c.end_char - c.start_char) |-> text[c.start_char + k]]
            /\ c.num_chars = Len(c.text)
            /\ c.num_chars = c.end_char - c.start_char

\* a returned run whose final chunk is clamped and shorter than chunk_size
C3_Witness ==
    /\ pc = "done" /\ ValidParams /\ Len(chunks) >= 2
    /\ chunks[Len(chunks)].start_char + chunk_size > Len(text)
    /\ chunks[Len(chunks)].num_chars < chunk_size
    /\ chunks[Len(chunks)].num_chars > 0

\* C4: for chunk_size > overlap >= 0, two consecutive chunks i, i+1 with
\* start_char_i + chunk_size <= len(text) share exactly overlap characters:
\* end_char_i - start_char_{i+1} = overlap, and the last overlap characters of
\* chunk i are the first overlap characters of chunk i+1.
C4_ExactOverlap ==
    ValidParams =>
        \A i \in 1..(Len(chunks) - 1) :
            LET c == chunks[i]
                d == chunks[i + 1]
            IN  c.start_char + chunk_size <= Len(text) =>
                    /\ c.end_char - d.start_char = overlap
                    /\ Len(c.text) >= overlap
                    /\ Len(d.text) >= overlap
                    /\ \A k \in 1..overlap :
                          c.text[Len(c.text) - overlap + k] = d.text[k]

\* two consecutive chunks of the example text sharing two distinct characters
C4_Witness ==
    /\ pc = "done" /\ ValidParams /\ overlap = 2 /\ text = ExampleText
    /\ Len(chunks) >= 2
    /\ chunks[1].start_char + chunk_size <= Len(text)
    /\ chunks[1].text[chunk_size] = chunks[2].text[2]

\* C5: chunk_text is total over valid inputs: with chunk_size > 0 and
\* 0 <= overlap < chunk_size the loop reaches start >= len(text) and returns,
\* start growing by chunk_size - overlap > 0 in every iteration; the empty text
\* returns the empty sequence without an iteration.
C5_Terminates ==
    /\ ValidParams ~> (pc = "done")
    /\ [](pc = "done" => start >= Len(text))
    /\ [](pc = "done" /\ Len(text) = 0 => chunks = <<>> /\ chunk_id = 0)
    /\ [][(ValidParams /\ chunk_id' # chunk_id) =>
              (start' = start + (chunk_size - overlap) /\ start' > start)]_vars

\* a valid run that returned after more than one iteration
C5_Witness ==
    /\ pc = "done" /\ ValidParams /\ Len(text) > 0 /\ chunk_id > 1
    /\ start >= Len(text)

\* C9: for a non-empty text and overlap >= chunk_size > 0 the loop does not
\* end: start never rises above 0 (it stays 0 when overlap = chunk_size and
\* is negative after the first iteration when overlap > chunk_size), the loop
\* condition holds in every reachable state, the function has not returned, and
\* chunk_id and the chunk list grow by one with each further iteration.
C9_NoTermination ==
    (Len(text) > 0 /\ chunk_size > 0 /\ overlap >= chunk_size) =>
        /\ pc = "loop"
        /\ start <= 0
        /\ start < Len(text)
        /\ (overlap = chunk_size => start = 0)
        /\ (overlap > chunk_size /\ chunk_id > 0 => start < 0)
        /\ Len(chunks) = chunk_id
        /\ (chunk_id < MaxIter => ENABLED ChunkLoopStep)

\* the loop still running after MaxIter iterations, with overlap > chunk_size
C9_Witness ==
    /\ Len(text) > 0 /\ chunk_size > 0 /\ overlap > chunk_size
    /\ pc = "loop" /\ chunk_id = MaxIter /\ Len(chunks) = MaxIter

\* the chunks of the worked example: chunk_text("abcdefghij", 4, 1)
ExampleChunks ==
    << [chunk_id |-> 0, text |-> <<"a", "b", "c", "d">>,
        start_char |-> 0, end_char |-> 4, num_chars |-> 4],
       [chunk_id |-> 1, text |-> <<"d", "e", "f", "g">>,
        start_char |-> 3, end_char |-> 7, num_chars |-> 4],
       [chunk_id |-> 2, text |-> <<"g", "h", "i", "j">>,
        start_char |-> 6, end_char |-> 10, num_chars |-> 4],
       [chunk_id |-> 3, text |-> <<"j">>,
        start_char |-> 9, end_char |-> 10, num_chars |-> 1] >>

\* C10: for chunk_size > 0 and 0 <= overlap < chunk_size, chunk_text emits one
\* chunk for every k with k * (chunk_size - overlap) < len(text), that is
\* ceil(len(text) / (chunk_size - overlap)) chunks; it stops only when
\* start >= len(text).  For "abcdefghij", chunk_size 4, overlap 1 the chunks are
\* [0,4), [3,7), [6,10), [9,10).
C10_ChunkCount ==
    (pc = "done" /\ ValidParams) =>
        LET step == chunk_size - overlap IN
        /\ Len(chunks) = CeilDiv(Len(text), step)
        /\ \A k \in 0..Len(text) :
              k * step < Len(text) <=>
                  (k < Len(chunks) /\ chunks[k + 1].start_char = k * step)
        /\ start >= Len(text)
        /\ (text = ExampleText /\ chunk_size = 4 /\ overlap = 1
               => chunks = ExampleChunks)

\* the worked example returned: two chunks end at len(text) and the final
\* chunk lies inside the previous one, with at most overlap characters
C10_Witness ==
    /\ pc = "done" /\ text = ExampleText /\ chunk_size = 4 /\ overlap = 1
    /\ chunks = ExampleChunks
    /\ Cardinality({i \in 1..Len(chunks) : chunks[i].end_char = Len(text)}) = 2
    /\ chunks[4].start_char >= chunks[3].start_char
    /\ chunks[4].end_char <= chunks[3].end_char
    /\ chunks[4].num_chars <= overlap

-----------------------------------------------------------------------------
(* Properties of the endpoints *)

\* C6: a chunk request with overlap >= chunk_size is rejected with a
\* validation error before any chunk is emitted: with such parameters
\* chunk_text runs no iteration of its loop and emits no chunk, and no chunk
\* response carries them.  (Stated for chunk_size > 0; C7 is about the rest.)
C6_OverlapRejected ==
    /\ (pc # "idle" /\ chunk_size > 0 /\ overlap >= chunk_size)
          => (chunk_id = 0 /\ chunks = <<>>)
    /\ (response.status = 200 /\ "chunks" \in DOMAIN response
            /\ response.chunk_size > 0)
          => response.overlap < response.chunk_size

\* C7: chunk_text and GET /chunk/{filename} fail with a validation error
\* whenever chunk_size <= 0: with such a chunk_size chunk_text neither runs an
\* iteration of its loop nor returns, and no chunk response carries it.
C7_ChunkSizeRejected ==
    /\ (pc # "idle" /\ chunk_size <= 0) => (chunk_id = 0 /\ pc # "done")
    /\ (response.status = 200 /\ "chunks" \in DOMAIN response)
          => response.chunk_size > 0

\* an upload that passes both validation checks of upload_pdf
Accepted(file) == EndsWith(file.filename, PdfSuffix) /\ file.data.size # 0

\* the accepted uploads whose file name, spaces replaced by underscores, is n
AcceptedAs(n) ==
    {i \in 1..Len(uploads) :
        Accepted(uploads[i]) /\ Replace(uploads[i].filename, " ", "_") = n}

Last(S) == CHOOSE i \in S : \A j \in S : j <= i

\* C8: after any sequence of POST /upload requests on an empty store, the
\* store maps a name n to bytes b exactly when the most recent upload that
\* passed both validation checks and whose file name with spaces replaced by
\* underscores is n carried b.
C8_StoreIsLastAcceptedUpload ==
    \A n \in DOMAIN store \cup
             {Replace(uploads[i].filename, " ", "_") : i \in 1..Len(uploads)} :
        /\ n \in DOMAIN store <=> AcceptedAs(n) # {}
        /\ n \in DOMAIN store => store[n] = uploads[Last(AcceptedAs(n))].data

\* C8 for the names that have no path separator: the part of the claim that
\* upload_pdf does satisfy (rejections leave the store alone, a later accepted
\* upload replaces an earlier one, a file stays stored when extraction fails).
C8_HoldsWithoutSeparator ==
    \A n \in DOMAIN store \cup
             {Replace(uploads[i].filename, " ", "_") : i \in 1..Len(uploads)} :
        (\A k \in 1..Len(n) : n[k] # "/") =>
            /\ n \in DOMAIN store <=> AcceptedAs(n) # {}
            /\ n \in DOMAIN store => store[n] = uploads[Last(AcceptedAs(n))].data

====
